---- MODULE Spec2Model ----
(***************************************************************************)
(* Model of streamlit_app(2).py: the "d-fly vs 3mo spread" dashboard.     *)
(*                                                                         *)
(* The script is re-executed top to bottom on every interaction.  One run *)
(* aligns the two uploaded CSV files on their common timestamps, fits a   *)
(* regression of fly on leg for every aligned row, derives residuals and  *)
(* their statistics, and offers a "Save Metrics" button whose callback    *)
(* appends the run's metrics to st.session_state.history.                 *)
(*                                                                         *)
(* Numbers.  float64 values are modelled as exact rationals <<n, d>> in   *)
(* lowest terms with d > 0, extended by the IEEE specials                 *)
(* NaN = <<0,0>>, +inf = <<1,0>>, -inf = <<-1,0>>.  Rounding error is not *)
(* modelled.  A value that is a square root (std, skew, z_score) is kept  *)
(* as <<s, q>>, meaning s * sqrt(q) with s in {-1, 0, 1}.                 *)
(*                                                                         *)
(* Timestamps are calendar dates <<year, month, day>>.                    *)
(***************************************************************************)
EXTENDS Integers, Sequences, FiniteSets, TLC

\* ------------------------------------------------------------------------
\* float64 arithmetic (exact rationals with NaN and infinities)
\* ------------------------------------------------------------------------

Abs(n) == IF n < 0 THEN -n ELSE n

Sign(n) == IF n < 0 THEN -1 ELSE IF n > 0 THEN 1 ELSE 0

RECURSIVE GCD(_, _)
GCD(a, b) == IF b = 0 THEN a ELSE GCD(b, a % b)

\* <<n, d>> in canonical form: lowest terms, d > 0; d = 0 is a special.
Norm(q) ==
    IF q[2] = 0 THEN <<Sign(q[1]), 0>>
    ELSE LET g == GCD(Abs(q[1]), Abs(q[2]))
             s == Sign(q[2])
         IN  <<(s * q[1]) \div g, (s * q[2]) \div g>>

NaN == <<0, 0>>

Num(n) == <<n, 1>>

IsNaN(q) == q = NaN

IsFinite(q) == q[2] # 0

\* the sum, over the least common denominator
Add(a, b) ==
    IF a[2] = 0 /\ b[2] = 0
    THEN (IF a = b THEN a ELSE NaN)
    ELSE IF a[2] = 0 THEN a
    ELSE IF b[2] = 0 THEN b
    ELSE IF a[2] = 1 /\ b[2] = 1 THEN <<a[1] + b[1], 1>>
    ELSE LET g == GCD(a[2], b[2])
         IN  Norm(<<a[1] * (b[2] \div g) + b[1] * (a[2] \div g),
                    (a[2] \div g) * b[2]>>)

Neg(a) == <<-a[1], a[2]>>

Sub(a, b) == Add(a, Neg(b))

\* the product, common factors cancelled before multiplying
Mul(a, b) ==
    IF a[2] = 0 \/ b[2] = 0 \/ a[1] = 0 \/ b[1] = 0
    THEN Norm(<<Sign(a[1]) * Sign(b[1]), Sign(a[2]) * Sign(b[2])>>)
    ELSE IF a[2] = 1 /\ b[2] = 1 THEN <<a[1] * b[1], 1>>
    ELSE LET g1 == GCD(Abs(a[1]), b[2])
             g2 == GCD(Abs(b[1]), a[2])
         IN  <<(a[1] \div g1) * (b[1] \div g2), (a[2] \div g2) * (b[2] \div g1)>>

\* x / 0 is +-inf for x # 0 and NaN for x = 0, as numpy float64 division.
Div(a, b) == Mul(a, Norm(<<b[2], b[1]>>))

\* s * sqrt(q)
SNaN == <<0, NaN>>

\* np.sqrt of a non-negative value
Sqrt(q) ==
    IF IsNaN(q) \/ q[1] < 0 THEN SNaN
    ELSE <<Sign(q[1]), q>>

\* x / (s * sqrt(q)) for a rational x
DivSqrt(x, r) ==
    LET sq == Div(Mul(x, x), r[2])
        sg == Sign(x[1]) * (IF r[1] = 0 THEN 1 ELSE r[1])
    IN  IF IsNaN(x) \/ r = SNaN \/ IsNaN(sq) THEN SNaN
        ELSE IF sq[1] = 0 THEN <<0, sq>>
        ELSE <<sg, sq>>

SIsFinite(r) == r[2][2] # 0

\* ------------------------------------------------------------------------
\* Timestamps and pd.DateOffset(months=...)
\* ------------------------------------------------------------------------

IsLeap(y) == (y % 4 = 0 /\ y % 100 # 0) \/ y % 400 = 0

DaysInMonth(y, m) ==
    IF m = 2 THEN (IF IsLeap(y) THEN 29 ELSE 28)
    ELSE IF m \in {4, 6, 9, 11} THEN 30 ELSE 31

\* t - pd.DateOffset(months=k): same day of the month k months earlier,
\* clamped to the last day of that month.
SubMonths(t, k) ==
    LET total == t[1] * 12 + (t[2] - 1) - k
        y == total \div 12
        m == (total % 12) + 1
        dim == DaysInMonth(y, m)
    IN  <<y, m, IF t[3] > dim THEN dim ELSE t[3]>>

TsLT(a, b) ==
    \/ a[1] < b[1]
    \/ a[1] = b[1] /\ a[2] < b[2]
    \/ a[1] = b[1] /\ a[2] = b[2] /\ a[3] < b[3]

TsLE(a, b) == a = b \/ TsLT(a, b)

\* ------------------------------------------------------------------------
\* Bounds of the model and program constants
\* ------------------------------------------------------------------------

\* min_periods is 50 in the script; the model scales it down so that the
\* bounded series below reach both sides of the test.
min_periods == 2

\* pd.DateOffset(months=3)
months == 3

\* longest uploaded file whose rows come in arbitrary order, with repeated
\* timestamps and missing Close values
MaxRows == 2

\* longest uploaded pair of files with distinct, ascending, common timestamps
MaxSeries == 3

\* most records saved to the history in one session
MaxHistory == 2

\* Timestamps of the uploaded rows: around a leap-year month end, so that
\* the month arithmetic clamps (2024-05-31 minus 3 months is 2024-02-29).
Dates == << <<2024, 2, 28>>, <<2024, 2, 29>>, <<2024, 3, 1>>,
            <<2024, 5, 31>>, <<2024, 6, 1>> >>

LegCloses == {Num(0), Num(1)}

FlyCloses == {Num(5), Num(7)}

FileNames == {"a.csv", "b.csv"}

\* a script variable that the run has not assigned
Unset == <<>>

\* ------------------------------------------------------------------------
\* Helpers on sequences
\* ------------------------------------------------------------------------

\* the sequence f as an explicit tuple
Tuple(f) == f \o <<>>

Range(s) == {s[i] : i \in DOMAIN s}

RECURSIVE SumQ(_)
SumQ(s) == IF s = <<>> THEN Num(0) ELSE Add(Head(s), SumQ(Tail(s)))

Count(s, x) == Cardinality({i \in DOMAIN s : s[i] = x})

\* every ordering of the rows in s
Perms(s) ==
    IF Len(s) <= 1 THEN {s}
    ELSE LET n == Len(s)
         IN  {Tuple([i \in 1..n |-> s[f[i]]]) : f \in
                {g \in [1..n -> 1..n] : \A i, j \in 1..n : i # j => g[i] # g[j]}}

\* every ordering of rows that is ascending by timestamp: what an unstable
\* sort (kind="quicksort") may return.  Rows of one timestamp come in any
\* order, the timestamps in theirs.
RECURSIVE OrdersFrom(_, _)
OrdersFrom(k, rows) ==
    IF k > Len(Dates) THEN {<<>>}
    ELSE {p \o rest : p \in Perms(SelectSeq(rows, LAMBDA r : r.ts = Dates[k])),
                      rest \in OrdersFrom(k + 1, rows)}

SortedOrders(rows) == OrdersFrom(1, rows)

\* ------------------------------------------------------------------------
\* Load and align on common dates (lines 22-34)
\* ------------------------------------------------------------------------

\* common = set(df_fly[ts]) & set(df_leg[ts])
Common(fly, leg) == {r.ts : r \in Range(fly)} \cap {r.ts : r \in Range(leg)}

\* df_x[df_x[ts].isin(common)]
IsinCommon(rows, common) == SelectSeq(rows, LAMBDA r : r.ts \in common)

Index(rows) == Tuple([i \in DOMAIN rows |-> rows[i].ts])

HasDuplicates(idx) == \E i, j \in DOMAIN idx : i # j /\ idx[i] = idx[j]

\* Index.union of two ascending indexes over the same timestamps: equal
\* indexes are returned as they are, otherwise every timestamp is kept as
\* often as in the index that repeats it most.
RECURSIVE UnionFrom(_, _, _)
UnionFrom(k, a, b) ==
    IF k > Len(Dates) THEN <<>>
    ELSE LET ca == Count(a, Dates[k])
             cb == Count(b, Dates[k])
             c == IF ca > cb THEN ca ELSE cb
         IN  [i \in 1..c |-> Dates[k]] \o UnionFrom(k + 1, a, b)

UnionIndex(a, b) == IF a = b THEN a ELSE UnionFrom(1, a, b)

\* Series.reindex(index): the series as it is when the index is its own;
\* a ValueError when the series has duplicate labels; else a lookup.
CanReindex(rows, idx) == Index(rows) = idx \/ ~HasDuplicates(Index(rows))

Reindex(rows, idx) ==
    IF Index(rows) = idx THEN Tuple([i \in DOMAIN rows |-> rows[i].close])
    ELSE Tuple([i \in DOMAIN idx |->
            (CHOOSE r \in Range(rows) : r.ts = idx[i]).close])

\* pd.DataFrame({"leg": ..., "fly": ...}).dropna()
Frame(legc, flyc) ==
    LET idx == UnionIndex(Index(legc), Index(flyc))
        l == Reindex(legc, idx)
        f == Reindex(flyc, idx)
        all == Tuple([i \in DOMAIN idx |-> [ts |-> idx[i], leg |-> l[i], fly |-> f[i]]])
    IN  SelectSeq(all, LAMBDA r : ~IsNaN(r.leg) /\ ~IsNaN(r.fly))

FrameRaises(legc, flyc) ==
    LET idx == UnionIndex(Index(legc), Index(flyc))
    IN  ~CanReindex(legc, idx) \/ ~CanReindex(flyc, idx)

\* ------------------------------------------------------------------------
\* Rolling 3-month regression (lines 37-53)
\* ------------------------------------------------------------------------

\* window_df = df.loc[df.index >= (t - pd.DateOffset(months=3))]
Window(df, t) == SelectSeq(df, LAMBDA r : TsLE(SubMonths(t, months), r.ts))

\* np.polyfit(x, y, 1) in exact arithmetic.  The least-squares line when the
\* x are not all equal.  When they are all equal to c the scaled design
\* matrix has rank 1 and lstsq returns the minimum-norm solution, slope
\* mean(y) / (2c) and intercept mean(y) / 2 (with a RankWarning); for c = 0
\* the scaling divides 0 by 0 and lstsq is handed a NaN matrix (nan_matrix).
Polyfit(w) ==
    LET n == Num(Len(w))
        x == Tuple([i \in DOMAIN w |-> w[i].leg])
        y == Tuple([i \in DOMAIN w |-> w[i].fly])
        Sx == SumQ(x)
        Sy == SumQ(y)
        Sxx == SumQ([i \in DOMAIN w |-> Mul(x[i], x[i])])
        Sxy == SumQ([i \in DOMAIN w |-> Mul(x[i], y[i])])
        D == Sub(Mul(n, Sxx), Mul(Sx, Sx))
        m == Div(Sub(Mul(n, Sxy), Mul(Sx, Sy)), D)
        ybar == Div(Sy, n)
    IN  IF D # Num(0)
        THEN [nan_matrix |-> FALSE, m |-> m, b0 |-> Div(Sub(Sy, Mul(m, Sx)), n)]
        ELSE IF x[1] # Num(0)
        THEN [nan_matrix |-> FALSE, m |-> Div(ybar, Mul(Num(2), x[1])),
              b0 |-> Div(ybar, Num(2))]
        ELSE [nan_matrix |-> TRUE, m |-> NaN, b0 |-> NaN]

\* a loop that skips the full windows instead of the short ones
TooFewInverted(w, p) == Len(w) > p

\* the test of line 41
TooFew(w, p) == Len(w) < p

\* one pass of the loop body for the row at t: the appended (beta, alpha)
Fit(df, t, p) ==
    LET window_df == Window(df, t)
    IN  IF TooFew(window_df, p)
        THEN [nan_matrix |-> FALSE, m |-> NaN, b0 |-> NaN]
        ELSE Polyfit(window_df)

\* the loop over df.index: one fit per row
Fits(df, p) == Tuple([i \in DOMAIN df |-> Fit(df, df[i].ts, p)])

\* lstsq on a NaN matrix: LAPACK reports "SVD did not converge" (numpy raises
\* LinAlgError) or returns NaN coefficients, depending on the build: lapack
\* is "raise" or "nan".  The loop raises when one of its fits does.
LoopRaises(fits, lapack) ==
    lapack = "raise" /\ \E i \in DOMAIN fits : fits[i].nan_matrix

Predicted(beta, leg, intercept) == Add(Mul(beta, leg), intercept)

Residual(fly, predicted) == Sub(fly, predicted)

\* LAPACK's answers to a NaN matrix; one stands for both when no fit hands
\* it one, where they do not differ
LapackAnswers(fits) ==
    IF \E i \in DOMAIN fits : fits[i].nan_matrix THEN {"raise", "nan"} ELSE {"raise"}

\* df with the columns beta, intercept, predicted and residual attached
Regress(df, fits) ==
    Tuple([i \in DOMAIN df |->
        LET pr == Predicted(fits[i].m, df[i].leg, fits[i].b0)
        IN  [ts |-> df[i].ts, leg |-> df[i].leg, fly |-> df[i].fly,
             beta |-> fits[i].m, intercept |-> fits[i].b0, predicted |-> pr,
             residual |-> Residual(df[i].fly, pr)]])

\* ------------------------------------------------------------------------
\* Metrics (lines 56-69)
\* ------------------------------------------------------------------------

ResidualColumn(df) == Tuple([i \in DOMAIN df |-> df[i].residual])

\* Series.dropna()
DropNa(col) == SelectSeq(col, LAMBDA v : ~IsNaN(v))

\* Series.mean(): skips NaN; NaN when nothing is left
Mean(col) ==
    LET r == DropNa(col)
    IN  IF r = <<>> THEN NaN ELSE Div(SumQ(r), Num(Len(r)))

\* the deviations of the values of r from their mean
Deviations(r) ==
    LET mu == Mean(r)
    IN  Tuple([i \in DOMAIN r |-> Sub(r[i], mu)])

Pow(q, k) == IF k = 2 THEN Mul(q, q)
             ELSE IF k = 3 THEN Mul(q, Mul(q, q))
             ELSE Mul(Mul(q, q), Mul(q, q))

\* the sum of the k-th powers of the deviations
PowerSum(dev, k) == SumQ(Tuple([i \in DOMAIN dev |-> Pow(dev[i], k)]))

\* the delta degrees of freedom of Series.std(ddof=1)
Ddof == 1

\* the population standard deviation, defined from one value on
StdPopulation(col) ==
    LET r == DropNa(col)
    IN  IF r = <<>> THEN SNaN
        ELSE Sqrt(Div(PowerSum(Deviations(r), 2), Num(Len(r))))

\* Series.std(ddof=1): skips NaN; NaN with fewer than 2 values left
Std(col) ==
    LET r == DropNa(col)
    IN  IF Len(r) - Ddof <= 0 THEN SNaN
        ELSE Sqrt(Div(PowerSum(Deviations(r), 2), Num(Len(r) - Ddof)))

\* the last residual that is defined, whichever row holds it
LatestDefined(df) ==
    LET r == DropNa([i \in DOMAIN df |-> df[i].residual])
    IN  IF r = <<>> THEN NaN ELSE r[Len(r)]

\* df["residual"].iloc[-1]
Latest(df) == df[Len(df)].residual

ZScore(latest, mu, sigma) == DivSqrt(Sub(latest, mu), sigma)

\* scipy.stats.moment: the k-th biased central moment, from the deviations
CentralMoment(dev, k) ==
    IF dev = <<>> THEN NaN ELSE Div(PowerSum(dev, k), Num(Len(dev)))

\* scipy.stats.skew: m3 / m2^1.5 with biased moments.  With zero variance
\* the result is NaN, or 0 before SciPy 1.9: zerovar is "nan" or "zero".
Skew(m2, m3, zerovar) ==
    IF IsNaN(m2) THEN SNaN
    ELSE IF m2 = Num(0)
    THEN (IF zerovar = "zero" THEN Sqrt(Num(0)) ELSE SNaN)
    ELSE DivSqrt(m3, Sqrt(Mul(m2, Mul(m2, m2))))

\* scipy.stats.kurtosis(fisher=False): m4 / m2^2, not reduced by 3
Kurtosis(m2, m4, zerovar) ==
    IF IsNaN(m2) THEN NaN
    ELSE IF m2 = Num(0)
    THEN (IF zerovar = "zero" THEN Num(0) ELSE NaN)
    ELSE Div(m4, Mul(m2, m2))

\* ------------------------------------------------------------------------
\* State
\* ------------------------------------------------------------------------

VARIABLES
    fly_file,       \* the uploaded double-butterfly CSV: [name, rows]
    leg_file,       \* the uploaded 3 month spread CSV: [rows]
    status,         \* "uploaded" (no run on these files yet), "done", "raised"
    exc,            \* the exception that ended the last run, or ""
    df,             \* the aligned frame of the last run, with its columns
    metrics,        \* mu, sigma, latest, z_score, mu2, sigma2, skw, kurt_p
    session_state,  \* [has |-> "history" in st.session_state, history |-> ...]
    button,         \* the last run rendered the Save Metrics button
    clicked         \* the last run was started by a click on that button

vars == <<fly_file, leg_file, status, exc, df, metrics, session_state, button, clicked>>

NoMetrics ==
    [mu |-> Unset, sigma |-> Unset, latest |-> Unset, z_score |-> Unset,
     mu2 |-> Unset, sigma2 |-> Unset, skw |-> Unset, kurt_p |-> Unset]

\* ------------------------------------------------------------------------
\* Uploaded files
\* ------------------------------------------------------------------------

\* rows in any order, timestamps possibly repeated, Close possibly missing
LooseFiles(closes) ==
    UNION {[1..n -> [ts : {Dates[1], Dates[2]}, close : closes]] : n \in 0..MaxRows}

RECURSIVE RowsOf(_, _, _)
RowsOf(k, S, c) ==
    IF k > Len(Dates) THEN <<>>
    ELSE (IF k \in S THEN <<[ts |-> Dates[k], close |-> c[k]]>> ELSE <<>>)
         \o RowsOf(k + 1, S, c)

\* the timestamp sets of a pair of files with distinct ascending timestamps
SeriesShapes == {S \in SUBSET (1..Len(Dates)) : Cardinality(S) <= MaxSeries}

\* those dated in the first quarter of the year
SessionShapes == {S \in SeriesShapes : \A k \in S : Dates[k][2] <= 3}

\* ------------------------------------------------------------------------
\* One run of the script (lines 22-107)
\* ------------------------------------------------------------------------

\* a script that empties the history on every run
InitHistoryAlways(ss) == [has |-> TRUE, history |-> <<>>]

\* lines 86-87
InitHistory(ss) == IF ss.has THEN ss ELSE [has |-> TRUE, history |-> <<>>]

\* The frame is empty: df["residual"].iloc[-1] raises (line 58)
RaisedIndexError(ss, d, mu, sigma) ==
    /\ status' = "raised" /\ exc' = "IndexError"
    /\ df' = d
    /\ metrics' = [NoMetrics EXCEPT !.mu = mu, !.sigma = sigma]
    /\ session_state' = ss /\ button' = FALSE

\* SciPy's results for zero variance; one stands for both when the variance
\* is not zero, where they do not differ
ZeroVarAnswers(m2) == IF m2 = Num(0) THEN {"nan", "zero"} ELSE {"nan"}

\* lines 56-107 on the frame d.  SciPy's result for zero variance is left
\* open (zerovar).
MetricsAndButton(ss, d) ==
    LET mu == Mean(ResidualColumn(d))
        sigma == Std(ResidualColumn(d))
        latest == Latest(d)
        residuals == DropNa(ResidualColumn(d))
        mu2 == Mean(residuals)
        sigma2 == Std(residuals)
        dev == Deviations(residuals)
        m2 == CentralMoment(dev, 2)
        m3 == CentralMoment(dev, 3)
        m4 == CentralMoment(dev, 4)
    IN  IF d = <<>>
        THEN RaisedIndexError(ss, d, mu, sigma)
        ELSE /\ status' = "done" /\ exc' = ""
             /\ df' = d
             /\ \E zerovar \in ZeroVarAnswers(m2) :
                  metrics' =
                    [mu |-> mu, sigma |-> sigma, latest |-> latest,
                     z_score |-> ZScore(latest, mu, sigma),
                     mu2 |-> mu2, sigma2 |-> sigma2,
                     skw |-> Skew(m2, m3, zerovar),
                     kurt_p |-> Kurtosis(m2, m4, zerovar)]
             /\ session_state' = InitHistory(ss)
             /\ button' = TRUE

\* The run of the script on the uploaded files with session state ss.  The
\* choices are what the libraries leave open: the order of equal timestamps
\* after each sort, the answer of LAPACK to a NaN matrix, the zero-variance
\* result of SciPy.
Run(ff, lf, ss) ==
    LET common == Common(ff.rows, lf.rows)
    IN  \E fly_common \in SortedOrders(IsinCommon(ff.rows, common)),
           leg_common \in SortedOrders(IsinCommon(lf.rows, common)) :
          IF FrameRaises(leg_common, fly_common)
          THEN /\ status' = "raised" /\ exc' = "ValueError"
               /\ df' = <<>> /\ metrics' = NoMetrics
               /\ session_state' = ss /\ button' = FALSE
          ELSE \E aligned \in SortedOrders(Frame(leg_common, fly_common)) :
                 \E fits \in {Fits(aligned, min_periods)} : \E lapack \in LapackAnswers(fits) :
                       IF LoopRaises(fits, lapack)
                       THEN /\ status' = "raised" /\ exc' = "LinAlgError"
                            /\ df' = aligned /\ metrics' = NoMetrics
                            /\ session_state' = ss /\ button' = FALSE
                       ELSE \E d \in {Regress(aligned, fits)} : MetricsAndButton(ss, d)

\* ------------------------------------------------------------------------
\* Session
\* ------------------------------------------------------------------------

\* nothing has run on the uploaded files yet
Fresh ==
    /\ status = "uploaded" /\ exc = ""
    /\ df = <<>> /\ metrics = NoMetrics
    /\ session_state = [has |-> FALSE, history |-> <<>>]
    /\ button = FALSE /\ clicked = FALSE

\* files whose rows come in any order
LooseUpload ==
    \E f \in LooseFiles({Num(5), NaN}), l \in LooseFiles({Num(1), NaN}) :
      /\ fly_file = [name |-> "a.csv", rows |-> f]
      /\ leg_file = [rows |-> l]

\* files with the same distinct, ascending timestamps and no missing Close
SeriesUpload(shapes) ==
    \E S \in shapes :
      \E f \in [S -> FlyCloses], l \in [S -> LegCloses] :
        /\ fly_file = [name |-> "a.csv", rows |-> RowsOf(1, S, f)]
        /\ leg_file = [rows |-> RowsOf(1, S, l)]

\* a session starts on a pair of files dated in the first quarter
Init == SeriesUpload(SessionShapes) /\ Fresh

\* the first run on any pair of files
InitRun == (LooseUpload \/ SeriesUpload(SeriesShapes)) /\ Fresh

\* any interaction that is not the button: the script runs again
Rerun ==
    /\ Run(fly_file, leg_file, session_state)
    /\ clicked' = FALSE
    /\ UNCHANGED <<fly_file, leg_file>>

\* the callback of the button (lines 89-97)
save_metrics(ss, name, m) ==
    [ss EXCEPT !.history = Append(@,
        [butterfly |-> name, mean |-> m.mu2, std |-> m.sigma2, skew |-> m.skw,
         kurtosis |-> m.kurt_p, z_score |-> m.z_score])]

\* a click on Save Metrics: the callback, then the script runs again
ClickSave ==
    /\ button
    /\ Len(session_state.history) < MaxHistory
    /\ Run(fly_file, leg_file, save_metrics(session_state, fly_file.name, metrics))
    /\ clicked' = TRUE
    /\ UNCHANGED <<fly_file, leg_file>>

\* the same butterfly file uploaded under another name: the script runs again
Upload ==
    \E name \in FileNames \ {fly_file.name} :
      /\ fly_file' = [fly_file EXCEPT !.name = name]
      /\ Run(fly_file', leg_file, session_state)
      /\ clicked' = FALSE
      /\ UNCHANGED leg_file

Next == Rerun \/ ClickSave \/ Upload

\* a session: reruns, clicks on Save Metrics and uploads
Spec == Init /\ [][Next]_vars

\* the script on every pair of bounded files, run and run again
SpecRun == InitRun /\ [][Rerun]_vars

\* ------------------------------------------------------------------------
\* Notions of the specification, for stating the claims
\* ------------------------------------------------------------------------

\* the script has run on the uploaded files
Ran == status # "uploaded"

\* the rows of d with timestamp in [t - 3 calendar months, t]
TrailingWindow(d, t) ==
    SelectSeq(d, LAMBDA r : TsLE(SubMonths(t, months), r.ts) /\ TsLE(r.ts, t))

\* slope, intercept, predicted value and residual of a row are undefined
Undefined(r) ==
    IsNaN(r.beta) /\ IsNaN(r.intercept) /\ IsNaN(r.predicted) /\ IsNaN(r.residual)

Defined(r) ==
    IsFinite(r.beta) /\ IsFinite(r.intercept) /\ IsFinite(r.predicted)
    /\ IsFinite(r.residual)

\* the timestamps that carry a non-missing Close in a file
NonMissingTs(rows) == {r.ts : r \in {q \in Range(rows) : ~IsNaN(q.close)}}

SharedTs == NonMissingTs(fly_file.rows) \cap NonMissingTs(leg_file.rows)

StrictlyAscending(d) == \A i \in 1..(Len(d) - 1) : TsLT(d[i].ts, d[i + 1].ts)

\* the defined residuals R, in timestamp order
R == DropNa(ResidualColumn(df))

AllEqual(r) == \A i, j \in DOMAIN r : r[i] = r[j]

Alternating(d) == \A k \in 1..(Len(d) - 1) : d[k].leg # d[k + 1].leg

\* the record of the run on display
CurrentRecord ==
    [butterfly |-> fly_file.name, mean |-> metrics.mu2, std |-> metrics.sigma2,
     skew |-> metrics.skw, kurtosis |-> metrics.kurt_p, z_score |-> metrics.z_score]

\* ------------------------------------------------------------------------
\* Claims
\* ------------------------------------------------------------------------

\* C1: the rows used to fit the row at t are exactly the aligned rows with
\* timestamp in [t - 3 calendar months, t]; no later row is among them.
\* (Stated of the rows that got a fit, in the frames in which consecutive rows
\* differ in leg value: a window whose leg values are all equal is C5's.)
C1_WindowIsTrailing ==
    status = "done" /\ Alternating(df) =>
      \A i \in DOMAIN df :
        Defined(df[i]) => Window(df, df[i].ts) = TrailingWindow(df, df[i].ts)

\* C2: a row's record is undefined if and only if fewer than min_periods
\* aligned rows have their timestamp in [t - 3 calendar months, t].
\* (Stated of the frames in which consecutive rows differ in leg value, so that
\* no window of two or more rows has all its leg values equal: those are C5's.)
C2_UndefinedIffTrailingTooFew ==
    status = "done" =>
      \A i \in DOMAIN df :
        LET w == TrailingWindow(df, df[i].ts)
        IN  Alternating(df) => (Undefined(df[i]) <=> Len(w) < min_periods)

\* C3: for all uploaded files, rows in any order and timestamps repeated or
\* not, the run builds an aligned table whose timestamps are those with a
\* non-missing value in both files, strictly ascending.
C3_AlignedIsIntersection ==
    Ran =>
      /\ exc # "ValueError"
      /\ {r.ts : r \in Range(df)} = SharedTs
      /\ StrictlyAscending(df)

\* C4: with no shared timestamp that has both values, the run completes
\* without raising, the aligned table is empty and every summary field is
\* undefined.
C4_EmptyInputCompletes ==
    Ran /\ SharedTs = {} =>
      /\ status = "done"
      /\ df = <<>>
      /\ IsNaN(metrics.mu2) /\ metrics.sigma2 = SNaN /\ metrics.skw = SNaN
      /\ IsNaN(metrics.kurt_p) /\ IsNaN(metrics.latest) /\ metrics.z_score = SNaN

\* C5: a row whose window holds at least min_periods rows, all with the same
\* leg value, gets an undefined record, never a finite-looking slope.
\* (Stated of the runs that complete, on frames without repeated timestamps:
\* those are C3's.)
C5_DegenerateWindowUndefined ==
    status = "done" /\ StrictlyAscending(df) =>
      \A i \in DOMAIN df :
        LET w == TrailingWindow(df, df[i].ts)
        IN  Len(w) >= min_periods /\ AllEqual([k \in DOMAIN w |-> w[k].leg])
              => Undefined(df[i])

\* C6 as claimed: the latest residual is the last defined residual, also when
\* the chronologically last row is undefined, and z_score is
\* (latest_residual - mean(R)) / std_dev(R).
C6_LatestIsLastDefined ==
    status = "done" /\ R # <<>> =>
      /\ metrics.latest = R[Len(R)]
      /\ metrics.z_score = DivSqrt(Sub(R[Len(R)], Mean(R)), Std(R))

\* C6 as amended: the latest residual is the residual of the chronologically
\* last aligned row, defined or not; latest_residual and z_score are
\* undefined when it is undefined, and otherwise it is the last element of R
\* and z_score is (latest_residual - mean(R)) / std_dev(R).
C6_LatestIsLastRow ==
    status = "done" /\ R # <<>> =>
      LET last == df[Len(df)].residual
      IN  /\ metrics.latest = last
          /\ IsNaN(last) => metrics.z_score = SNaN
          /\ ~IsNaN(last) =>
               /\ last = R[Len(R)]
               /\ metrics.z_score = DivSqrt(Sub(last, Mean(R)), Std(R))

\* C6 witness: earlier rows have defined residuals, the last row has none,
\* and the headline z-score is undefined.
C6_Witness ==
    /\ status = "done" /\ R # <<>>
    /\ IsNaN(df[Len(df)].residual)
    /\ metrics.z_score = SNaN

\* C7: z_score is undefined, neither finite nor infinite, when the sample
\* standard deviation of the defined residuals is zero or fewer than 2 are
\* defined; with fewer than 2 the std_dev is undefined, and the mean is
\* computed as soon as one is defined.
C7_ZScoreUndefined ==
    status = "done" =>
      /\ Len(R) < 2 \/ AllEqual(R) => metrics.z_score = SNaN
      /\ Len(R) < 2 => metrics.sigma = SNaN /\ metrics.sigma2 = SNaN
      /\ Len(R) >= 1 => IsFinite(metrics.mu) /\ IsFinite(metrics.mu2)

\* C7 witness: at least 2 defined residuals, all equal, the last row among
\* them: the standard deviation is zero and z_score is undefined.
C7_Witness ==
    /\ status = "done" /\ Len(R) >= 2 /\ AllEqual(R)
    /\ ~IsNaN(df[Len(df)].residual)
    /\ metrics.sigma = Sqrt(Num(0))
    /\ metrics.z_score = SNaN

\* C8: when fly = 2*leg + 5 on every row of a row's window, leg not constant
\* there, and the window holds at least min_periods rows, the row gets slope
\* 2, intercept 5, predicted 2*leg + 5 and residual 0; and every defined row
\* has predicted = slope*leg + intercept and residual = fly - predicted.
C8_ExactLine ==
    status = "done" =>
      \A i \in DOMAIN df :
        LET w == TrailingWindow(df, df[i].ts)
            r == df[i]
        IN  /\ ( /\ Len(w) >= min_periods
                 /\ \A k \in DOMAIN w : w[k].fly = Add(Mul(Num(2), w[k].leg), Num(5))
                 /\ ~AllEqual([k \in DOMAIN w |-> w[k].leg]) )
               => /\ r.beta = Num(2) /\ r.intercept = Num(5)
                  /\ r.predicted = Add(Mul(Num(2), r.leg), Num(5))
                  /\ r.residual = Num(0)
            /\ Defined(r) =>
                 /\ r.predicted = Add(Mul(r.beta, r.leg), r.intercept)
                 /\ r.residual = Sub(r.fly, r.predicted)

\* the rows of the frame left undefined by the loop run with threshold p,
\* and whether that loop raises
UndefinedRows(p) ==
    LET fits == Fits(df, p)
    IN  {i \in DOMAIN df : IsNaN(fits[i].m)}

Raises(p, lapack) == LoopRaises(Fits(df, p), lapack)

Thresholds == 1..(Len(df) + 1)

\* C9: for one aligned series and thresholds p1 <= p2, every row undefined
\* under p1 is undefined under p2, so p2 leaves at least as many undefined.
C9_MonotoneInMinPeriods ==
    status = "done" =>
      LET undefined == Tuple([p \in Thresholds |-> UndefinedRows(p)])
          raises == Tuple([p \in Thresholds |->
                             [lapack \in {"raise", "nan"} |-> Raises(p, lapack)]])
      IN  \A lapack \in {"raise", "nan"} :
            \A p1, p2 \in Thresholds :
              p1 <= p2 /\ ~raises[p1][lapack] /\ ~raises[p2][lapack] =>
                /\ undefined[p1] \subseteq undefined[p2]
                /\ Cardinality(undefined[p1]) <= Cardinality(undefined[p2])

\* C9 witness: the run left a row defined that a threshold one higher leaves
\* undefined.
C9_Witness ==
    /\ status = "done"
    /\ \E i \in DOMAIN df :
         /\ ~IsNaN(df[i].beta)
         /\ i \notin UndefinedRows(min_periods)
         /\ i \in UndefinedRows(min_periods + 1)

\* C10: the history is append-only.  It is set to the empty list only when
\* there is none, a run without a click leaves it as it is, and a click
\* appends the record of the run on display and nothing else.
C10_HistoryAppendOnly ==
    [][ /\ ~session_state.has /\ session_state'.has => session_state'.history = <<>>
        /\ session_state.has => session_state'.has
        /\ session_state.has /\ ~clicked' => session_state'.history = session_state.history
        /\ clicked' =>
             /\ session_state.has
             /\ session_state'.history = Append(session_state.history, CurrentRecord)
      ]_vars

\* C10 witness: two clicks have saved the records of two runs, under two
\* names, in the order of the clicks, and the last run was not a click.
C10_Witness ==
    /\ Len(session_state.history) = 2
    /\ session_state.history[1].butterfly = "a.csv"
    /\ session_state.history[2].butterfly = "b.csv"
    /\ IsFinite(session_state.history[1].mean)
    /\ ~clicked

====
